---- MODULE Spec2Model ----
(***************************************************************************)
(* A model of color_finder.py (class ColorImageFinder).                    *)
(*                                                                         *)
(* Text is modelled at character level: a Python str is a sequence of      *)
(* one-character strings, so that split, lower, endswith, "in" and         *)
(* strptime are computed the way the library computes them.                *)
(*                                                                         *)
(* A percentage is an IEEE double in the program.  The model carries it in *)
(* units of 1/200 of a percent: the exact value of count/total*100 is      *)
(* 2*count units (total is always 100*100), and the odd neighbours 2c-1    *)
(* and 2c+1 stand for the doubles just below and just above the exact      *)
(* value, which is where (count / total) * 100 lands for some counts.      *)
(***************************************************************************)
EXTENDS Integers, Sequences, FiniteSets, Bags, TLC

(***************************************************************************)
(* Bounds of the model                                                     *)
(***************************************************************************)
\* at most this many entries in the listing of the base directory
MaxEntries == 2
\* at most this many runs of equal pixels in a sampled image
MaxRuns == 2

(***************************************************************************)
(* Python str operations                                                   *)
(***************************************************************************)
UpperChars ==
    <<"A", "B", "C", "D", "E", "F", "G", "H", "I", "J", "K", "L", "M",
      "N", "O", "P", "Q", "R", "S", "T", "U", "V", "W", "X", "Y", "Z">>
LowerChars ==
    <<"a", "b", "c", "d", "e", "f", "g", "h", "i", "j", "k", "l", "m",
      "n", "o", "p", "q", "r", "s", "t", "u", "v", "w", "x", "y", "z">>

\* str.lower() on one ASCII character
LowerChar(c) ==
    IF \E i \in 1..Len(UpperChars) : UpperChars[i] = c
    THEN LowerChars[CHOOSE i \in 1..Len(UpperChars) : UpperChars[i] = c]
    ELSE c

\* str.lower()
Lower(s) == [i \in 1..Len(s) |-> LowerChar(s[i])]

\* sub in s
Contains(s, sub) ==
    \E i \in 0..(Len(s) - Len(sub)) : SubSeq(s, i + 1, i + Len(sub)) = sub

\* s.endswith(suffix)
EndsWith(s, suffix) ==
    /\ Len(s) >= Len(suffix)
    /\ SubSeq(s, Len(s) - Len(suffix) + 1, Len(s)) = suffix

\* s.split(sep) for a one-character separator: the list of segments
RECURSIVE Split(_, _)
Split(s, sep) ==
    IF \E i \in 1..Len(s) : s[i] = sep
    THEN LET i == CHOOSE k \in 1..Len(s) :
                      s[k] = sep /\ \A j \in 1..(k - 1) : s[j] # sep
         IN  <<SubSeq(s, 1, i - 1)>> \o Split(SubSeq(s, i + 1, Len(s)), sep)
    ELSE <<s>>

\* os.path.basename of a path held as a sequence of names
Basename(path) == path[Len(path)]

(***************************************************************************)
(* datetime.strptime(s, '%Y%m%d')                                          *)
(* The format compiles to the regular expression                           *)
(*   (?P<Y>\d\d\d\d)(?P<m>1[0-2]|0[1-9]|[1-9])                             *)
(*   (?P<d>3[0-1]|[1-2]\d|0[1-9]|[1-9]| [1-9])                             *)
(* matched from the start of the string; the first match in alternation    *)
(* order is taken, and text left after it is an error.                     *)
(***************************************************************************)
Digits == <<"0", "1", "2", "3", "4", "5", "6", "7", "8", "9">>

IsDigit(c) == \E i \in 1..Len(Digits) : Digits[i] = c

DigitVal(c) == (CHOOSE i \in 1..Len(Digits) : Digits[i] = c) - 1

\* the character at position p, or the empty string past the end
CharAt(s, p) == IF p >= 1 /\ p <= Len(s) THEN s[p] ELSE ""

IsDigitIn(c, lo, hi) == IsDigit(c) /\ DigitVal(c) >= lo /\ DigitVal(c) <= hi

\* the alternatives of (?P<m>...) that match at position p, in order
MonthAlts(s, p) ==
    LET a == CharAt(s, p)
        b == CharAt(s, p + 1)
        alts == << [ok |-> a = "1" /\ IsDigitIn(b, 0, 2), two |-> TRUE],
                   [ok |-> a = "0" /\ IsDigitIn(b, 1, 9), two |-> TRUE],
                   [ok |-> IsDigitIn(a, 1, 9), two |-> FALSE] >>
        hit == SelectSeq(alts, LAMBDA x : x.ok)
    IN  [i \in 1..Len(hit) |->
            IF hit[i].two
            THEN [val |-> 10 * DigitVal(a) + DigitVal(b), next |-> p + 2]
            ELSE [val |-> DigitVal(a), next |-> p + 1]]

\* the alternatives of (?P<d>...) that match at position p, in order
DayAlts(s, p) ==
    LET a == CharAt(s, p)
        b == CharAt(s, p + 1)
        alts == << [ok |-> a = "3" /\ IsDigitIn(b, 0, 1), two |-> TRUE, sp |-> FALSE],
                   [ok |-> IsDigitIn(a, 1, 2) /\ IsDigit(b), two |-> TRUE, sp |-> FALSE],
                   [ok |-> a = "0" /\ IsDigitIn(b, 1, 9), two |-> TRUE, sp |-> FALSE],
                   [ok |-> IsDigitIn(a, 1, 9), two |-> FALSE, sp |-> FALSE],
                   [ok |-> a = " " /\ IsDigitIn(b, 1, 9), two |-> TRUE, sp |-> TRUE] >>
        hit == SelectSeq(alts, LAMBDA x : x.ok)
    IN  [i \in 1..Len(hit) |->
            IF hit[i].sp
            THEN [val |-> DigitVal(b), next |-> p + 2]
            ELSE IF hit[i].two
            THEN [val |-> 10 * DigitVal(a) + DigitVal(b), next |-> p + 2]
            ELSE [val |-> DigitVal(a), next |-> p + 1]]

IsLeap(y) == (y % 4 = 0) /\ ((y % 100 # 0) \/ (y % 400 = 0))

DaysInMonth(y, m) ==
    IF m = 2 THEN (IF IsLeap(y) THEN 29 ELSE 28)
    ELSE IF m \in {4, 6, 9, 11} THEN 30
    ELSE 31

\* a date as one integer, ordered as datetime orders dates
DateNum(y, m, d) == y * 10000 + m * 100 + d

NoDate == [ok |-> FALSE, date |-> 0]

\* datetime.strptime(s, '%Y%m%d'): ok is FALSE where it raises ValueError
Strptime(s) ==
    IF ~(Len(s) >= 4 /\ \A i \in 1..4 : IsDigit(s[i])) THEN NoDate
    ELSE
    LET y  == 1000 * DigitVal(s[1]) + 100 * DigitVal(s[2])
              + 10 * DigitVal(s[3]) + DigitVal(s[4])
        ms == SelectSeq(MonthAlts(s, 5), LAMBDA m : Len(DayAlts(s, m.next)) > 0)
    IN  IF Len(ms) = 0 THEN NoDate
        ELSE LET m == ms[1]
                 d == DayAlts(s, m.next)[1]
             IN  IF d.next - 1 # Len(s) THEN NoDate
                 ELSE IF y < 1 \/ d.val > DaysInMonth(y, m.val) THEN NoDate
                 ELSE [ok |-> TRUE, date |-> DateNum(y, m.val, d.val)]

\* ColorImageFinder.is_within_date_range; start_date and end_date are dates
is_within_date_range(folder_name, start_date, end_date) ==
    LET parts == Split(folder_name, "_")
    IN  IF Len(parts) < 2 THEN FALSE
        ELSE LET folder_date == Strptime(parts[2])
             IN  IF ~folder_date.ok THEN FALSE
                 ELSE start_date <= folder_date.date /\ folder_date.date <= end_date

(***************************************************************************)
(* String constants of the program                                         *)
(***************************************************************************)
Str_red == <<"r", "e", "d">>
Str_green == <<"g", "r", "e", "e", "n">>
Str_blue == <<"b", "l", "u", "e">>
Str_yellow == <<"y", "e", "l", "l", "o", "w">>
Str_orange == <<"o", "r", "a", "n", "g", "e">>
Str_pink == <<"p", "i", "n", "k">>
Str_Cover == <<"C", "o", "v", "e", "r">>
Str_tif == <<".", "t", "i", "f">>
Str_undatabased == <<"u", "n", "d", "a", "t", "a", "b", "a", "s", "e", "d">>
Str_databased == <<"d", "a", "t", "a", "b", "a", "s", "e", "d">>

(***************************************************************************)
(* The colour registry, self.color_bounds: name -> <<lower, upper>>, each  *)
(* an RGB triple of uint8                                                  *)
(***************************************************************************)
\* a registry with the red and green entries exchanged
color_bounds_RedGreenSwapped ==
    (Str_red    :> << <<0, 200, 0>>,    <<100, 255, 100>> >>) @@
    (Str_green  :> << <<255, 0, 0>>,    <<255, 250, 255>> >>) @@
    (Str_blue   :> << <<0, 0, 200>>,    <<100, 100, 255>> >>) @@
    (Str_yellow :> << <<200, 200, 0>>,  <<255, 255, 100>> >>) @@
    (Str_orange :> << <<255, 165, 0>>,  <<255, 255, 100>> >>) @@
    (Str_pink   :> << <<150, 50, 100>>, <<255, 200, 220>> >>)

color_bounds ==
    (Str_red    :> << <<255, 0, 0>>,    <<255, 250, 255>> >>) @@
    (Str_green  :> << <<0, 200, 0>>,    <<100, 255, 100>> >>) @@
    (Str_blue   :> << <<0, 0, 200>>,    <<100, 100, 255>> >>) @@
    (Str_yellow :> << <<200, 200, 0>>,  <<255, 255, 100>> >>) @@
    (Str_orange :> << <<255, 165, 0>>,  <<255, 255, 100>> >>) @@
    (Str_pink   :> << <<150, 50, 100>>, <<255, 200, 220>> >>)

\* ColorImageFinder.__init__: the fields of the new object
ColorImageFinder(color, base_dir, dest_dir) ==
    [base_directory |-> base_dir, dest_directory |-> dest_dir, color |-> Lower(color)]

(***************************************************************************)
(* Images.  Image.open(path).convert('RGB').resize((100, 100)) either      *)
(* raises or gives a 100 x 100 array of RGB pixels.  The array is held as  *)
(* runs of equal pixels: runs[i].n samples of value runs[i].px, the n      *)
(* adding up to 100 * 100.                                                 *)
(***************************************************************************)
\* the side of the resized image, image.resize((100, 100))
ResizeSide == 100

\* image_data.shape[0] * image_data.shape[1]
total_pixel_count == ResizeSide * ResizeSide

Channels == 1..3

\* np.all((pixel >= lower) & (pixel <= upper), axis=-1), with the upper
\* comparison strict
ColorMask_UpperExclusive(px, lower, upper) ==
    \A c \in Channels : px[c] >= lower[c] /\ px[c] < upper[c]

\* np.all((pixel >= lower_bound) & (pixel <= upper_bound), axis=-1) for one pixel
ColorMask(px, lower, upper) ==
    \A c \in Channels : px[c] >= lower[c] /\ px[c] <= upper[c]

\* np.sum(color_mask): the number of samples the mask selects
RECURSIVE color_pixel_count(_, _, _)
color_pixel_count(runs, lower, upper) ==
    IF runs = <<>> THEN 0
    ELSE (IF ColorMask(Head(runs).px, lower, upper) THEN Head(runs).n ELSE 0)
         + color_pixel_count(Tail(runs), lower, upper)

\* Counts of samples for which the double (count / 10000) * 100 is the
\* neighbour above, or below, the whole number count / 100:
\* (700 / 10000) * 100 = 7.000000000000001, (2900 / 10000) * 100 =
\* 28.999999999999996.  At every other whole percentage the double is exact.
RoundsAbove == {700, 1400, 2800, 5500, 5600}
RoundsBelow == {2900, 5700, 5800}

\* (color_pixel_count / total_pixel_count) * 100 in units of 1/200 percent
FloatPercentage(count, total) ==
    (200 * 100 * count) \div total
    + (IF count \in RoundsAbove THEN 1 ELSE IF count \in RoundsBelow THEN -1 ELSE 0)

\* a whole-number percentage bound in the same units
PctOfInt(b) == 200 * b

ErrUnsupported == [level |-> "ERROR", kind |-> "UnsupportedColor"]
ErrDecode == [level |-> "ERROR", kind |-> "DecodeError"]

\* count_color_pixels without the registry's error line
count_color_pixels_SilentUnsupported(self_color, image) ==
    IF self_color \notin DOMAIN color_bounds
    THEN [pct |-> 0, events |-> <<>>, opened |-> FALSE, raised |-> FALSE]
    ELSE IF ~image.decodable
    THEN [pct |-> 0, events |-> <<ErrDecode>>, opened |-> TRUE, raised |-> FALSE]
    ELSE [pct |-> FloatPercentage(
                      color_pixel_count(image.runs, color_bounds[self_color][1],
                                        color_bounds[self_color][2]),
                      total_pixel_count),
          events |-> <<>>, opened |-> TRUE, raised |-> FALSE]

\* count_color_pixels without the try/except around the decoding
count_color_pixels_NoCatch(self_color, image) ==
    IF self_color \notin DOMAIN color_bounds
    THEN [pct |-> 0, events |-> <<ErrUnsupported>>, opened |-> FALSE, raised |-> FALSE]
    ELSE IF ~image.decodable
    THEN [pct |-> 0, events |-> <<>>, opened |-> TRUE, raised |-> TRUE]
    ELSE [pct |-> FloatPercentage(
                      color_pixel_count(image.runs, color_bounds[self_color][1],
                                        color_bounds[self_color][2]),
                      total_pixel_count),
          events |-> <<>>, opened |-> TRUE, raised |-> FALSE]

\* ColorImageFinder.count_color_pixels.  pct is the value returned, events
\* the log records written, opened whether Image.open was called, raised
\* whether an exception leaves the method (it never does).
count_color_pixels(self_color, image) ==
    IF self_color \notin DOMAIN color_bounds
    THEN [pct |-> 0, events |-> <<ErrUnsupported>>, opened |-> FALSE, raised |-> FALSE]
    ELSE LET lower_bound == color_bounds[self_color][1]
             upper_bound == color_bounds[self_color][2]
         IN  IF ~image.decodable
             THEN [pct |-> 0, events |-> <<ErrDecode>>, opened |-> TRUE, raised |-> FALSE]
             ELSE [pct |-> FloatPercentage(
                               color_pixel_count(image.runs, lower_bound, upper_bound),
                               total_pixel_count),
                   events |-> <<>>, opened |-> TRUE, raised |-> FALSE]

(***************************************************************************)
(* Inputs: names of the entries of the base directory and of what lies     *)
(* under them, the command-line arguments, and images                      *)
(***************************************************************************)
\* "CP1_20240115_BATCH"
Dir_A == <<"C", "P", "1", "_", "2", "0", "2", "4", "0", "1", "1", "5", "_", "B", "A", "T", "C", "H">>
\* "CP1_20240120_B2"
Dir_B == <<"C", "P", "1", "_", "2", "0", "2", "4", "0", "1", "2", "0", "_", "B", "2">>
\* "CP1_20240210_BATCH"
Dir_C == <<"C", "P", "1", "_", "2", "0", "2", "4", "0", "2", "1", "0", "_", "B", "A", "T", "C", "H">>
\* "CP1_2024115_X"
Dir_D == <<"C", "P", "1", "_", "2", "0", "2", "4", "1", "1", "5", "_", "X">>
\* "NODATE"
Dir_E == <<"N", "O", "D", "A", "T", "E">>
\* "CP1_20240116_FILE"
File_F == <<"C", "P", "1", "_", "2", "0", "2", "4", "0", "1", "1", "6", "_", "F", "I", "L", "E">>
\* "CP1_20240230_BAD"
Dir_G == <<"C", "P", "1", "_", "2", "0", "2", "4", "0", "2", "3", "0", "_", "B", "A", "D">>
\* "deep"
Name_deep == <<"d", "e", "e", "p">>
\* "other"
Name_other == <<"o", "t", "h", "e", "r">>
\* "Cover_red.tif"
Name_Cover_red_tif == <<"C", "o", "v", "e", "r", "_", "r", "e", "d", ".", "t", "i", "f">>
\* "cover_lc.tif"
Name_cover_lc_tif == <<"c", "o", "v", "e", "r", "_", "l", "c", ".", "t", "i", "f">>
\* "Front_Cover.TIF"
Name_Front_Cover_TIF == <<"F", "r", "o", "n", "t", "_", "C", "o", "v", "e", "r", ".", "T", "I", "F">>
\* "Cover_x.tif"
Name_Cover_x_tif == <<"C", "o", "v", "e", "r", "_", "x", ".", "t", "i", "f">>
\* "Cover_top.tif"
Name_Cover_top_tif == <<"C", "o", "v", "e", "r", "_", "t", "o", "p", ".", "t", "i", "f">>
\* "Cover_half.tif"
Name_Cover_half_tif == <<"C", "o", "v", "e", "r", "_", "h", "a", "l", "f", ".", "t", "i", "f">>
\* "Cover_7.tif"
Name_Cover_7_tif == <<"C", "o", "v", "e", "r", "_", "7", ".", "t", "i", "f">>
\* "Cover.tiff"
Name_Cover_tiff == <<"C", "o", "v", "e", "r", ".", "t", "i", "f", "f">>
\* "Cover_bad.tif"
Name_Cover_bad_tif == <<"C", "o", "v", "e", "r", "_", "b", "a", "d", ".", "t", "i", "f">>
\* "Cover_d.tif"
Name_Cover_d_tif == <<"C", "o", "v", "e", "r", "_", "d", ".", "t", "i", "f">>
\* "Cover_e.tif"
Name_Cover_e_tif == <<"C", "o", "v", "e", "r", "_", "e", ".", "t", "i", "f">>
\* "Cover_g.tif"
Name_Cover_g_tif == <<"C", "o", "v", "e", "r", "_", "g", ".", "t", "i", "f">>

\* further folder names for the date check
\* "CP1_20240101_X"
Nm_start_eq == <<"C", "P", "1", "_", "2", "0", "2", "4", "0", "1", "0", "1", "_", "X">>
\* "CP1_20240131"
Nm_end_eq == <<"C", "P", "1", "_", "2", "0", "2", "4", "0", "1", "3", "1">>
\* "CP1_20241 5_X"
Nm_space == <<"C", "P", "1", "_", "2", "0", "2", "4", "1", " ", "5", "_", "X">>
\* "CP1__X"
Nm_empty_seg == <<"C", "P", "1", "_", "_", "X">>
\* "_20240115"
Nm_lead_us == <<"_", "2", "0", "2", "4", "0", "1", "1", "5">>
\* "CP1_202401150_X"
Nm_nine == <<"C", "P", "1", "_", "2", "0", "2", "4", "0", "1", "1", "5", "0", "_", "X">>
\* "CP1_20240229_L"
Nm_leap == <<"C", "P", "1", "_", "2", "0", "2", "4", "0", "2", "2", "9", "_", "L">>
\* "CP1_20230229_L"
Nm_noleap == <<"C", "P", "1", "_", "2", "0", "2", "3", "0", "2", "2", "9", "_", "L">>
\* "CP1_202411_X"
Nm_six == <<"C", "P", "1", "_", "2", "0", "2", "4", "1", "1", "_", "X">>
\* "CP1_00000115_X"
Nm_year0 == <<"C", "P", "1", "_", "0", "0", "0", "0", "0", "1", "1", "5", "_", "X">>

\* start_date and end_date arguments
\* "20240101"
Arg_20240101 == <<"2", "0", "2", "4", "0", "1", "0", "1">>
\* "20240131"
Arg_20240131 == <<"2", "0", "2", "4", "0", "1", "3", "1">>
\* "20240201"
Arg_20240201 == <<"2", "0", "2", "4", "0", "2", "0", "1">>
\* "20241130"
Arg_20241130 == <<"2", "0", "2", "4", "1", "1", "3", "0">>
\* "2024-01-01"
Arg_dashed == <<"2", "0", "2", "4", "-", "0", "1", "-", "0", "1">>

\* color arguments
\* "Red"
Clr_Red == <<"R", "e", "d">>
\* "RED"
Clr_RED == <<"R", "E", "D">>
\* "purple"
Clr_purple == <<"p", "u", "r", "p", "l", "e">>
\* "GREEN"
Clr_GREEN == <<"G", "R", "E", "E", "N">>
\* "PiNk"
Clr_PiNk == <<"P", "i", "N", "k">>
\* "reds"
Clr_reds == <<"r", "e", "d", "s">>

\* dest_dir arguments: a directory, or the empty string for none
Str_dest == <<"/", "d", "e", "s", "t">>
NoDest == <<>>

PureRed == <<255, 0, 0>>
PureGreen == <<0, 255, 0>>

\* an image every sample of which is px
ImgUniform(px) ==
    [decodable |-> TRUE, runs |-> <<[px |-> px, n |-> total_pixel_count]>>]

\* an image of n samples of px1 followed by samples of px2
ImgSplit(px1, n, px2) ==
    [decodable |-> TRUE,
     runs |-> <<[px |-> px1, n |-> n], [px |-> px2, n |-> total_pixel_count - n]>>]

\* a file Image.open cannot decode
ImgCorrupt == [decodable |-> FALSE, runs |-> <<>>]

\* The tree under the base directory: every node with its path from the
\* base directory, its kind, and for a file the image it holds.
Dir(path) == [path |-> path, kind |-> "dir", img |-> ImgCorrupt]
File(path, img) == [path |-> path, kind |-> "file", img |-> img]

Tree ==
    { Dir(<<Dir_A>>),
      Dir(<<Dir_A, Str_undatabased>>),
      File(<<Dir_A, Str_undatabased, Name_Cover_red_tif>>, ImgUniform(PureRed)),
      File(<<Dir_A, Str_undatabased, Name_cover_lc_tif>>, ImgUniform(PureRed)),
      Dir(<<Dir_A, Str_undatabased, Name_deep>>),
      File(<<Dir_A, Str_undatabased, Name_deep, Name_Front_Cover_TIF>>,
           ImgUniform(PureGreen)),
      Dir(<<Dir_A, Name_other>>),
      File(<<Dir_A, Name_other, Name_Cover_x_tif>>, ImgUniform(PureRed)),
      File(<<Dir_A, Name_Cover_top_tif>>, ImgUniform(PureRed)),
      Dir(<<Dir_B>>),
      File(<<Dir_B, Str_undatabased>>, ImgCorrupt),
      Dir(<<Dir_B, Str_databased>>),
      File(<<Dir_B, Str_databased, Name_Cover_half_tif>>,
           ImgSplit(PureRed, 5000, PureGreen)),
      File(<<Dir_B, Str_databased, Name_Cover_7_tif>>,
           ImgSplit(PureRed, 700, PureGreen)),
      File(<<Dir_B, Str_databased, Name_Cover_tiff>>, ImgUniform(PureRed)),
      File(<<Dir_B, Str_databased, Name_Cover_bad_tif>>, ImgCorrupt),
      Dir(<<Dir_C>>),
      Dir(<<Dir_C, Str_undatabased>>),
      File(<<Dir_C, Str_undatabased, Name_Cover_red_tif>>, ImgUniform(PureRed)),
      Dir(<<Dir_D>>),
      Dir(<<Dir_D, Str_undatabased>>),
      File(<<Dir_D, Str_undatabased, Name_Cover_d_tif>>, ImgUniform(PureRed)),
      Dir(<<Dir_E>>),
      Dir(<<Dir_E, Str_undatabased>>),
      File(<<Dir_E, Str_undatabased, Name_Cover_e_tif>>, ImgUniform(PureRed)),
      File(<<File_F>>, ImgCorrupt),
      Dir(<<Dir_G>>),
      Dir(<<Dir_G, Str_databased>>),
      File(<<Dir_G, Str_databased, Name_Cover_g_tif>>, ImgUniform(PureRed)) }

RootNames == {n.path[1] : n \in Tree}

\* the part of the tree under the root entries named in entries
TreeOf(entries) == {n \in Tree : n.path[1] \in entries}

\* base_dir argument
Str_base == <<"/", "b", "a", "s", "e">>

\* color arguments of the walk
WalkColors == {Clr_Red, Clr_purple}

\* <<start_date, end_date>> arguments of the walk
DateRangeArgs ==
    { <<Arg_20240101, Arg_20240131>>,
      <<Arg_20240201, Arg_20241130>>,
      <<Arg_dashed, Arg_20240131>> }

\* <<lower_bound, upper_bound>> arguments (argparse type=int)
BoundArgs == { <<0, 100>>, <<50, 100>>, <<50, 101>>, <<7, 50>>, <<-1, 100>> }

(***************************************************************************)
(* State                                                                   *)
(***************************************************************************)
VARIABLES
    entries,        \* the names of the entries of the base directory
    self,           \* the ColorImageFinder object
    start_arg,      \* find_color_images argument start_date (a string)
    end_arg,        \* find_color_images argument end_date (a string)
    lower_bound,    \* find_color_images argument
    upper_bound,    \* find_color_images argument
    pc,             \* position in find_color_images
    start_date,     \* local: the parsed start date
    end_date,       \* local: the parsed end date
    image_count,    \* local: count of images that pass the threshold
    todo,           \* entries of os.listdir not yet iterated
    folder,         \* loop variable of the outer loop
    subfolder_idx,  \* position in ["undatabased", "databased"]
    pending,        \* os.walk: directories still to be listed, a stack of sibling sets
    files,          \* os.walk: files of the current directory not yet iterated
    classified,     \* bag of the calls of count_color_pixels: path and value returned
    matched,        \* paths reported as a match
    copy_calls,     \* bag of the paths shutil.copy was called on
    dest_files,     \* the destination directory: base name -> path copied there
    log,            \* bag of the log records written
    summaries,      \* bag of the outer-loop entries a summary was logged in
    fnArgs,         \* the arguments of a single method call
    fnResult        \* its result

walkVars ==
    <<entries, self, start_arg, end_arg, lower_bound, upper_bound, pc, start_date,
      end_date, image_count, todo, folder, subfolder_idx, pending, files,
      classified, matched, copy_calls, dest_files, log, summaries>>

vars == <<walkVars, fnArgs, fnResult>>

\* the nodes under the base directory
fs == TreeOf(entries)

(***************************************************************************)
(* The file system calls                                                   *)
(***************************************************************************)
\* os.listdir(self.base_directory)
listdir(tree) == {n.path[1] : n \in tree}

\* os.path.isdir
isdir(tree, path) == \E n \in tree : n.path = path /\ n.kind = "dir"

\* os.path.exists
exists(tree, path) == \E n \in tree : n.path = path

IsChildOf(n, dir) ==
    /\ Len(n.path) = Len(dir) + 1
    /\ SubSeq(n.path, 1, Len(dir)) = dir

\* os.walk: the files of one directory
FilesIn(tree, dir) == {n \in tree : n.kind = "file" /\ IsChildOf(n, dir)}

\* os.walk: the subdirectories of one directory
SubdirsIn(tree, dir) == {n.path : n \in {m \in tree : m.kind = "dir" /\ IsChildOf(m, dir)}}

\* the subfolder names of the inner loop
Subfolders == <<Str_undatabased, Str_databased>>

(***************************************************************************)
(* The tests of find_color_images                                          *)
(***************************************************************************)
\* the file filter with "Cover" matched in any case
IsCandidateName_AnyCase(file) ==
    Contains(Lower(file), Lower(Str_Cover)) /\ EndsWith(Lower(file), Str_tif)

\* "Cover" in file and file.lower().endswith('.tif')
IsCandidateName(file) ==
    Contains(file, Str_Cover) /\ EndsWith(Lower(file), Str_tif)

\* the threshold test with the upper comparison not strict
IsMatch_UpperInclusive(lb, pct, ub) == PctOfInt(lb) < pct /\ pct <= PctOfInt(ub)

\* the threshold test with the lower comparison not strict
IsMatch_LowerInclusive(lb, pct, ub) == PctOfInt(lb) <= pct /\ pct < PctOfInt(ub)

\* lower_bound < color_percentage < upper_bound
IsMatch(lb, pct, ub) == PctOfInt(lb) < pct /\ pct < PctOfInt(ub)

\* the count when the increment sits inside the try block, after the copy
CountAfterMatch_InsideTry(count, copy_raised) ==
    IF copy_raised THEN count ELSE count + 1

\* image_count += 1, after the try/except around the copy
CountAfterMatch(count, copy_raised) == count + 1

\* where control goes when the if of the outer loop is false: the summary
\* lines, which are at the loop's level
AfterFolderSkipped == "summary"

Event(level, kind, path, n) == [level |-> level, kind |-> kind, path |-> path, n |-> n]

\* a bag with one more copy of e
BagAdd(bag, e) == bag (+) SetToBag({e})

RECURSIVE BagAddAll(_, _)
BagAddAll(bag, es) ==
    IF es = <<>> THEN bag ELSE BagAddAll(BagAdd(bag, Head(es)), Tail(es))

(***************************************************************************)
(* find_color_images                                                       *)
(***************************************************************************)
NoResult == [done |-> FALSE]
NoCall == [fn |-> "none"]

\* the locals of find_color_images before it is called
WalkLocalsInit ==
    /\ pc = "start"
    /\ start_date = 0
    /\ end_date = 0
    /\ image_count = 0
    /\ todo = {}
    /\ folder = <<>>
    /\ subfolder_idx = 1
    /\ pending = <<>>
    /\ files = {}
    /\ classified = EmptyBag
    /\ matched = {}
    /\ copy_calls = EmptyBag
    /\ dest_files = <<>>
    /\ log = EmptyBag
    /\ summaries = EmptyBag

\* a ColorImageFinder has been constructed over some tree; find_color_images
\* is about to be called with some arguments
Init ==
    /\ entries \in {e \in SUBSET RootNames : Cardinality(e) <= MaxEntries}
    /\ self \in {ColorImageFinder(c, Str_base, d) : c \in WalkColors, d \in {NoDest, Str_dest}}
    /\ \E r \in DateRangeArgs : start_arg = r[1] /\ end_arg = r[2]
    /\ \E b \in BoundArgs : lower_bound = b[1] /\ upper_bound = b[2]
    /\ WalkLocalsInit
    /\ fnArgs = NoCall
    /\ fnResult = NoResult

\* lines 70-76: parse the dates, zero the count, list the base directory.
\* strptime raising ValueError leaves find_color_images.
Start ==
    /\ pc = "start"
    /\ LET s == Strptime(start_arg)
           e == Strptime(end_arg)
       IN  IF ~s.ok \/ ~e.ok
           THEN /\ pc' = "raised"
                /\ UNCHANGED <<start_date, end_date, image_count, todo>>
           ELSE /\ pc' = "folders"
                /\ start_date' = s.date
                /\ end_date' = e.date
                /\ image_count' = 0
                /\ todo' = listdir(fs)
    /\ UNCHANGED <<entries, self, start_arg, end_arg, lower_bound, upper_bound, folder,
                   subfolder_idx, pending, files, classified, matched, copy_calls,
                   dest_files, log, summaries, fnArgs, fnResult>>

\* lines 76-79: the next entry of the listing (os.listdir gives no order)
NextFolder ==
    /\ pc = "folders"
    /\ \E f \in todo :
          /\ todo' = todo \ {f}
          /\ folder' = f
          /\ IF isdir(fs, <<f>>) /\ is_within_date_range(f, start_date, end_date)
             THEN /\ log' = BagAdd(log, Event("INFO", "ProcessingFolder", <<f>>, 0))
                  /\ subfolder_idx' = 1
                  /\ pc' = "subfolders"
             ELSE /\ pc' = AfterFolderSkipped
                  /\ UNCHANGED <<log, subfolder_idx>>
    /\ UNCHANGED <<entries, self, start_arg, end_arg, lower_bound, upper_bound, start_date,
                   end_date, image_count, pending, files, classified, matched,
                   copy_calls, dest_files, summaries, fnArgs, fnResult>>

\* lines 82-85: the next of the two subfolders; os.walk starts on it if it
\* exists (on a path that is no directory os.walk yields nothing)
EnterSubfolder ==
    /\ pc = "subfolders"
    /\ subfolder_idx <= Len(Subfolders)
    /\ LET subfolder_path == <<folder, Subfolders[subfolder_idx]>>
       IN  IF exists(fs, subfolder_path)
           THEN /\ pending' = IF isdir(fs, subfolder_path)
                              THEN <<{subfolder_path}>> ELSE <<>>
                /\ files' = {}
                /\ pc' = "walk"
                /\ UNCHANGED subfolder_idx
           ELSE /\ subfolder_idx' = subfolder_idx + 1
                /\ UNCHANGED <<pending, files, pc>>
    /\ UNCHANGED <<entries, self, start_arg, end_arg, lower_bound, upper_bound, start_date,
                   end_date, image_count, todo, folder, classified, matched,
                   copy_calls, dest_files, log, summaries, fnArgs, fnResult>>

\* line 85: os.walk yields the next directory, top-down: a directory before
\* its subdirectories, siblings in no particular order
WalkDir ==
    /\ pc = "walk"
    /\ files = {}
    /\ pending # <<>>
    /\ \E d \in pending[Len(pending)] :
          LET rest == pending[Len(pending)] \ {d}
              below == SubSeq(pending, 1, Len(pending) - 1)
              kept == IF rest = {} THEN below ELSE Append(below, rest)
              subs == SubdirsIn(fs, d)
          IN  /\ pending' = IF subs = {} THEN kept ELSE Append(kept, subs)
              /\ files' = FilesIn(fs, d)
    /\ UNCHANGED <<entries, self, start_arg, end_arg, lower_bound, upper_bound, pc,
                   start_date, end_date, image_count, todo, folder, subfolder_idx,
                   classified, matched, copy_calls, dest_files, log, summaries,
                   fnArgs, fnResult>>

\* line 85: os.walk is exhausted; on to the next subfolder
WalkEnd ==
    /\ pc = "walk"
    /\ files = {}
    /\ pending = <<>>
    /\ subfolder_idx' = subfolder_idx + 1
    /\ pc' = "subfolders"
    /\ UNCHANGED <<entries, self, start_arg, end_arg, lower_bound, upper_bound, start_date,
                   end_date, image_count, todo, folder, pending, files, classified,
                   matched, copy_calls, dest_files, log, summaries, fnArgs, fnResult>>

\* lines 86-106: one file of the current directory.  shutil.copy succeeds
\* or raises, as the destination allows.
ProcessFile ==
    /\ pc = "walk"
    /\ \E n \in files, copy_ok \in BOOLEAN :
          LET file == Basename(n.path)
              image_path == n.path
              r == count_color_pixels(self.color, n.img)
              is_match == IsMatch(lower_bound, r.pct, upper_bound)
              copies == is_match /\ self.dest_directory # NoDest
              log1 == BagAddAll(log, [i \in 1..Len(r.events) |->
                          Event(r.events[i].level, r.events[i].kind, image_path, 0)])
              log2 == IF is_match
                      THEN BagAdd(log1, Event("INFO", "Match", image_path, r.pct))
                      ELSE log1
              log3 == IF ~copies THEN log2
                      ELSE IF copy_ok
                      THEN BagAdd(log2, Event("INFO", "Saved", image_path, 0))
                      ELSE BagAdd(log2, Event("ERROR", "SaveError", image_path, 0))
          IN  /\ files' = files \ {n}
              /\ IF ~IsCandidateName(file)
                 THEN /\ copy_ok
                      /\ UNCHANGED <<pc, image_count, classified, matched, copy_calls,
                                     dest_files, log>>
                 ELSE IF r.raised
                 THEN /\ copy_ok
                      /\ pc' = "raised"
                      /\ classified' = BagAdd(classified, [path |-> image_path, pct |-> r.pct])
                      /\ UNCHANGED <<image_count, matched, copy_calls, dest_files, log>>
                 ELSE /\ (copies \/ copy_ok)
                      /\ classified' = BagAdd(classified, [path |-> image_path, pct |-> r.pct])
                      /\ log' = log3
                      /\ matched' = IF is_match THEN matched \cup {image_path} ELSE matched
                      /\ copy_calls' = IF copies THEN BagAdd(copy_calls, image_path)
                                       ELSE copy_calls
                      /\ dest_files' = IF copies /\ copy_ok
                                       THEN (file :> image_path) @@ dest_files
                                       ELSE dest_files
                      /\ image_count' = IF is_match
                                        THEN CountAfterMatch(image_count, ~copy_ok)
                                        ELSE image_count
                      /\ UNCHANGED pc
    /\ UNCHANGED <<entries, self, start_arg, end_arg, lower_bound, upper_bound, start_date,
                   end_date, todo, folder, subfolder_idx, pending, summaries,
                   fnArgs, fnResult>>

\* both subfolders are done: control reaches the summary lines
EndSubfolders ==
    /\ pc = "subfolders"
    /\ subfolder_idx > Len(Subfolders)
    /\ pc' = "summary"
    /\ UNCHANGED <<entries, self, start_arg, end_arg, lower_bound, upper_bound, start_date,
                   end_date, image_count, todo, folder, subfolder_idx, pending, files,
                   classified, matched, copy_calls, dest_files, log, summaries,
                   fnArgs, fnResult>>

\* lines 110-113: the two summary lines, at the end of the outer loop's body
Summary ==
    /\ pc = "summary"
    /\ log' = BagAdd(BagAdd(log, Event("INFO", "TotalProcessed", <<>>, image_count)),
                     Event("INFO", "TotalMatches", <<>>, image_count))
    /\ summaries' = BagAdd(summaries, folder)
    /\ pc' = "folders"
    /\ UNCHANGED <<entries, self, start_arg, end_arg, lower_bound, upper_bound, start_date,
                   end_date, image_count, todo, folder, subfolder_idx, pending, files,
                   classified, matched, copy_calls, dest_files, fnArgs, fnResult>>

\* the outer loop is exhausted: find_color_images returns
Finish ==
    /\ pc = "folders"
    /\ todo = {}
    /\ pc' = "done"
    /\ UNCHANGED <<entries, self, start_arg, end_arg, lower_bound, upper_bound, start_date,
                   end_date, image_count, todo, folder, subfolder_idx, pending, files,
                   classified, matched, copy_calls, dest_files, log, summaries,
                   fnArgs, fnResult>>

Next ==
    \/ Start
    \/ NextFolder
    \/ EnterSubfolder
    \/ WalkDir
    \/ WalkEnd
    \/ ProcessFile
    \/ EndSubfolders
    \/ Summary
    \/ Finish

Spec == Init /\ [][Next]_vars

(***************************************************************************)
(* is_within_date_range on its own: one call on some folder name and some  *)
(* pair of dates                                                           *)
(***************************************************************************)
\* find_color_images not running
WalkIdle ==
    /\ entries = {}
    /\ self = ColorImageFinder(Str_red, Str_base, NoDest)
    /\ start_arg = <<>>
    /\ end_arg = <<>>
    /\ lower_bound = 0
    /\ upper_bound = 0
    /\ WalkLocalsInit

\* folder names the date check is called on
DateNames ==
    RootNames \cup {Nm_start_eq, Nm_end_eq, Nm_space, Nm_empty_seg, Nm_lead_us,
                    Nm_nine, Nm_leap, Nm_noleap, Nm_six, Nm_year0}

\* start and end dates the date check is called with
DateValues ==
    {Strptime(a).date : a \in {Arg_20240101, Arg_20240131, Arg_20240201, Arg_20241130}}
    \cup {DateNum(2024, 1, 15), DateNum(2024, 2, 29), DateNum(2024, 11, 5)}

InitDate ==
    /\ WalkIdle
    /\ fnArgs \in [fn : {"is_within_date_range"}, folder_name : DateNames,
                   start_date : DateValues, end_date : DateValues]
    /\ fnResult = NoResult

CallDate ==
    /\ fnArgs.fn = "is_within_date_range"
    /\ ~fnResult.done
    /\ fnResult' = [done |-> TRUE,
                    value |-> is_within_date_range(fnArgs.folder_name,
                                                   fnArgs.start_date, fnArgs.end_date)]
    /\ UNCHANGED <<walkVars, fnArgs>>

NextDate == CallDate

SpecDate == InitDate /\ [][NextDate]_vars

(***************************************************************************)
(* count_color_pixels on its own: one call of a new object's method on     *)
(* some image                                                              *)
(***************************************************************************)
\* color arguments of the constructor
ColorArgs ==
    {Str_red, Str_green, Str_blue, Str_yellow, Str_orange, Str_pink,
     Clr_Red, Clr_RED, Clr_GREEN, Clr_PiNk, Clr_purple, Clr_reds, <<>>}

\* px with channel c changed by delta
Nudge(px, c, delta) == [px EXCEPT ![c] = @ + delta]

\* uint8 pixels at and just outside the bounds of a colour of the registry
PixelsAt(lower, upper) ==
    {lower, upper, <<0, 0, 0>>}
    \cup {Nudge(lower, c, -1) : c \in {k \in Channels : lower[k] > 0}}
    \cup {Nudge(upper, c, 1) : c \in {k \in Channels : upper[k] < 255}}

PixelsFor(color) ==
    IF color \in DOMAIN color_bounds
    THEN PixelsAt(color_bounds[color][1], color_bounds[color][2])
    ELSE {PureRed, PureGreen, <<0, 0, 0>>}

\* where one run of pixels may end and the next begin
CutPoints == {700, 2900, 5000}

RECURSIVE SortedSeq(_)
SortedSeq(S) ==
    IF S = {} THEN <<>>
    ELSE LET m == CHOOSE x \in S : \A y \in S : x <= y
         IN  <<m>> \o SortedSeq(S \ {m})

\* the lengths of the runs that the cut points in cuts divide the samples into
RunLengths(cuts) ==
    LET c == SortedSeq(cuts)
    IN  [i \in 1..(Len(c) + 1) |->
            (IF i > Len(c) THEN total_pixel_count ELSE c[i])
            - (IF i = 1 THEN 0 ELSE c[i - 1])]

\* sampled images of at most MaxRuns runs over the pixels pixels, and an
\* undecodable file
ImagesOver(pixels) ==
    {ImgCorrupt} \cup
    UNION { { [decodable |-> TRUE,
               runs |-> [i \in 1..Len(RunLengths(cuts)) |->
                            [px |-> pxs[i], n |-> RunLengths(cuts)[i]]]]
              : pxs \in [1..(Cardinality(cuts) + 1) -> pixels] }
            : cuts \in {k \in SUBSET CutPoints : Cardinality(k) < MaxRuns} }

InitClassify ==
    /\ WalkIdle
    /\ fnArgs \in UNION { [fn : {"count_color_pixels"}, color : {c},
                           image : ImagesOver(PixelsFor(Lower(c)))] : c \in ColorArgs }
    /\ fnResult = NoResult

CallClassify ==
    /\ fnArgs.fn = "count_color_pixels"
    /\ ~fnResult.done
    /\ fnResult' = [done |-> TRUE,
                    value |-> count_color_pixels(
                                  ColorImageFinder(fnArgs.color, Str_base, NoDest).color,
                                  fnArgs.image)]
    /\ UNCHANGED <<walkVars, fnArgs>>

NextClassify == CallClassify

SpecClassify == InitClassify /\ [][NextClassify]_vars

(***************************************************************************)
(* Properties                                                              *)
(***************************************************************************)
NodeAt(path) == CHOOSE n \in Tree : n.path = path

ClassifiedPaths == {c.path : c \in BagToSet(classified)}

\* the number of log records of one kind about one path
LogCount(kind, path) ==
    LET hits == {e \in BagToSet(log) : e.kind = kind /\ e.path = path}
    IN  IF hits = {} THEN 0 ELSE CopiesIn(CHOOSE e \in hits : TRUE, log)

\* the number of log records of one kind
LogKindTotal(kind) ==
    LET hits == {e \in BagToSet(log) : e.kind = kind}
    IN  BagCardinality([x \in hits |-> log[x]])

\* a percentage lies strictly between the two bounds of the call
StrictlyBetween(pct) == 200 * lower_bound < pct /\ pct < 200 * upper_bound

\* the name has the letters C o v e r in a row and its last four characters
\* are .tif in any mix of cases
NamedCoverTif(name) ==
    /\ \E i \in 1..(Len(name) - 4) :
          /\ name[i] = "C" /\ name[i + 1] = "o" /\ name[i + 2] = "v"
          /\ name[i + 3] = "e" /\ name[i + 4] = "r"
    /\ Len(name) >= 4
    /\ name[Len(name) - 3] = "."
    /\ name[Len(name) - 2] \in {"t", "T"}
    /\ name[Len(name) - 1] \in {"i", "I"}
    /\ name[Len(name)] \in {"f", "F"}

\* the root entry is a directory whose name passes the date check against the
\* dates of the pass
QualifyingFolder(name) ==
    /\ name \in entries
    /\ \E n \in Tree : n.path = <<name>> /\ n.kind = "dir"
    /\ is_within_date_range(name, start_date, end_date)

\* the files named as a cover scan that lie at any depth under an
\* undatabased or databased child of a root entry
CoverScans ==
    {m \in Tree :
        /\ m.kind = "file"
        /\ Len(m.path) >= 3
        /\ m.path[2] \in {Str_undatabased, Str_databased}
        /\ NamedCoverTif(m.path[Len(m.path)])}

\* the files the pass is to classify: the cover scans of the qualifying
\* folders
ExpectedCandidates ==
    LET qualifying == {e \in entries : QualifyingFolder(e)}
    IN  {n.path : n \in {m \in CoverScans : m.path[1] \in qualifying}}

\* C1: a classified file is reported as a match (logged, counted, and copied
\* when a destination is set) if and only if its percentage lies strictly
\* between lower_bound and upper_bound; a percentage equal to either bound is
\* never a match.
C1_StrictThreshold ==
    /\ \A c \in BagToSet(classified) :
          /\ (c.path \in matched) <=> StrictlyBetween(c.pct)
          /\ (c.pct = 200 * lower_bound \/ c.pct = 200 * upper_bound)
                 => c.path \notin matched
          /\ LogCount("Match", c.path) = (IF c.path \in matched THEN 1 ELSE 0)
          /\ (self.dest_directory # NoDest)
                 => ((c.path \in DOMAIN copy_calls) <=> (c.path \in matched))
    /\ matched \subseteq ClassifiedPaths
    /\ image_count = Cardinality(matched)

\* a pass over files at 0, 7, 50 and 100 percent red with bounds (0, 100): the
\* files at exactly 0 and exactly 100 percent are not matches, others are
C1_Witness ==
    /\ pc = "done"
    /\ matched # {}
    /\ \E c1, c2 \in BagToSet(classified) :
          /\ NodeAt(c1.path).img.decodable
          /\ c1.pct = 200 * lower_bound
          /\ c2.pct = 200 * upper_bound
          /\ c1.path \notin matched
          /\ c2.path \notin matched

\* C2: a file that cannot be decoded is classified as 0 percent with one
\* error logged, no exception leaves the pass because of it, and at the end
\* of the pass every candidate file has been classified, decodable or not.
C2_DecodeFailureNonFatal ==
    /\ \A c \in BagToSet(classified) :
          (self.color \in DOMAIN color_bounds /\ ~NodeAt(c.path).img.decodable)
              => /\ c.pct = 0
                 /\ LogCount("DecodeError", c.path) = 1
    /\ (pc = "raised") => (classified = EmptyBag)
    /\ (pc = "done") => (ClassifiedPaths = ExpectedCandidates)

\* a finished pass in which one file failed to decode and another was scored
C2_Witness ==
    /\ pc = "done"
    /\ self.color \in DOMAIN color_bounds
    /\ \E c1, c2 \in BagToSet(classified) :
          /\ ~NodeAt(c1.path).img.decodable
          /\ LogCount("DecodeError", c1.path) = 1
          /\ c2.pct > 0

\* C3: for a color name that is not in the registry after lowercasing, a call
\* of count_color_pixels returns 0, records exactly one UnsupportedColor
\* error, does not open the image, and raises nothing.
C3_UnknownColor ==
    (fnResult.done /\ fnArgs.fn = "count_color_pixels"
       /\ Lower(fnArgs.color) \notin {Str_red, Str_green, Str_blue, Str_yellow,
                                      Str_orange, Str_pink})
    => /\ fnResult.value.pct = 0
       /\ fnResult.value.events = <<[level |-> "ERROR", kind |-> "UnsupportedColor"]>>
       /\ ~fnResult.value.opened
       /\ ~fnResult.value.raised

\* a call with the color purple on a decodable image has returned
C3_Witness ==
    /\ fnResult.done
    /\ fnArgs.fn = "count_color_pixels"
    /\ fnArgs.color = Clr_purple
    /\ fnArgs.image.decodable
    /\ fnResult.value.pct = 0

\* C4: a failed copy is logged and not fatal, and the match is still counted:
\* the match count is the number of classified files whose percentage lies
\* strictly between the bounds, however many copies failed, and at the end of
\* the pass every candidate file has been classified.
C4_CopyFailureStillCounted ==
    /\ image_count = Cardinality({c \in BagToSet(classified) : StrictlyBetween(c.pct)})
    /\ \A p \in DOMAIN copy_calls :
          /\ copy_calls[p] = 1
          /\ LogCount("Saved", p) + LogCount("SaveError", p) = 1
          /\ (LogCount("SaveError", p) = 1) => (p \in matched)
    /\ (pc = "raised") => (copy_calls = EmptyBag)
    /\ (pc = "done") => (ClassifiedPaths = ExpectedCandidates)

\* a finished pass in which one copy failed, another succeeded, and both
\* files were counted
C4_Witness ==
    /\ pc = "done"
    /\ image_count = 2
    /\ \E p, q \in DOMAIN copy_calls :
          LogCount("SaveError", p) = 1 /\ LogCount("Saved", q) = 1

\* the text is eight digits that name a day of the calendar, YYYYMMDD
IsDate8(s) ==
    /\ Len(s) = 8
    /\ \A i \in 1..8 : s[i] \in {"0", "1", "2", "3", "4", "5", "6", "7", "8", "9"}
    /\ LET y == 1000 * DigitVal(s[1]) + 100 * DigitVal(s[2])
                + 10 * DigitVal(s[3]) + DigitVal(s[4])
           m == 10 * DigitVal(s[5]) + DigitVal(s[6])
           d == 10 * DigitVal(s[7]) + DigitVal(s[8])
       IN  /\ y >= 1
           /\ m >= 1 /\ m <= 12
           /\ d >= 1 /\ d <= DaysInMonth(y, m)

Date8(s) ==
    (1000 * DigitVal(s[1]) + 100 * DigitVal(s[2]) + 10 * DigitVal(s[3])
     + DigitVal(s[4])) * 10000
    + (10 * DigitVal(s[5]) + DigitVal(s[6])) * 100
    + 10 * DigitVal(s[7]) + DigitVal(s[8])

\* C5: is_within_date_range returns true exactly when the second
\* underscore-separated segment of the folder name is an 8-digit YYYYMMDD
\* date d with start <= d <= end, and false for every other name.
C5_DateRangeExactly8Digits ==
    (fnResult.done /\ fnArgs.fn = "is_within_date_range")
    => LET parts == Split(fnArgs.folder_name, "_")
       IN  fnResult.value
           <=> /\ Len(parts) >= 2
               /\ IsDate8(parts[2])
               /\ fnArgs.start_date <= Date8(parts[2])
               /\ Date8(parts[2]) <= fnArgs.end_date

\* C6 as stated: with one pure red and one pure green candidate image, color
\* red and bounds (50, 100), the pass ends with exactly one match, the pure
\* red image, and with exactly one file copied when a destination is given.
RedGreenScenario ==
    /\ self.color = Str_red
    /\ lower_bound = 50
    /\ Cardinality(ExpectedCandidates) = 2
    /\ \E p, q \in ExpectedCandidates :
          /\ NodeAt(p).img = ImgUniform(<<255, 0, 0>>)
          /\ NodeAt(q).img = ImgUniform(<<0, 255, 0>>)

RedCandidates == {p \in ExpectedCandidates : NodeAt(p).img = ImgUniform(<<255, 0, 0>>)}

C6_OneMatchAtUpper100 ==
    (pc = "done" /\ RedGreenScenario /\ upper_bound = 100)
    => /\ matched = RedCandidates
       /\ image_count = 1
       /\ (self.dest_directory # NoDest) => (DOMAIN copy_calls = RedCandidates)

\* C6 amended: in that scenario the pure red image scores 100 and the pure
\* green image 0; with bounds (50, 100) nothing matches and nothing is copied,
\* 100 not being below 100; with bounds (50, 101) there is exactly one match,
\* the pure red image, and with a destination exactly one copy is made, of
\* that image, leaving one file in the destination when it succeeds.
C6_RedGreenEndToEnd ==
    (pc = "done" /\ RedGreenScenario)
    => /\ \A c \in BagToSet(classified) :
             c.pct = (IF c.path \in RedCandidates THEN 200 * 100 ELSE 0)
       /\ ClassifiedPaths = ExpectedCandidates
       /\ (upper_bound = 100)
             => /\ matched = {}
                /\ image_count = 0
                /\ copy_calls = EmptyBag
                /\ DOMAIN dest_files = {}
       /\ (upper_bound = 101)
             => /\ matched = RedCandidates
                /\ image_count = 1
                /\ (self.dest_directory = NoDest) => (copy_calls = EmptyBag)
                /\ (self.dest_directory # NoDest)
                      => /\ DOMAIN copy_calls = RedCandidates
                         /\ \A p \in RedCandidates : copy_calls[p] = 1
                         /\ \A p \in RedCandidates :
                               (LogCount("Saved", p) = 1)
                                   => dest_files = (Basename(p) :> p)

\* the scenario run with bounds (50, 101) and a destination: one match, one
\* file in the destination
C6_Witness ==
    /\ pc = "done"
    /\ RedGreenScenario
    /\ upper_bound = 101
    /\ self.dest_directory # NoDest
    /\ image_count = 1
    /\ Cardinality(DOMAIN dest_files) = 1

\* C7: over one pass a summary is emitted once for each qualifying folder and
\* for no other entry of the base directory.  The code emits it for every
\* entry of the listing: lines 110-113 stand outside the if of line 78, one
\* level out from the comment of line 108 that announces them.
C7_SummaryPerQualifyingFolder ==
    (pc = "done")
    => /\ \A e \in entries :
             CopiesIn(e, summaries) = (IF QualifyingFolder(e) THEN 1 ELSE 0)
       /\ BagCardinality(summaries) = Cardinality({e \in entries : QualifyingFolder(e)})

\* C8: the files passed to the classifier in one pass are exactly the files
\* at any depth under an "undatabased" or "databased" child of a qualifying
\* folder whose name contains "Cover" and ends in ".tif" in any case; each is
\* classified once, and no other file is classified, matched or copied.
C8_ExactlyTheCandidates ==
    LET expected == ExpectedCandidates
    IN  /\ ClassifiedPaths \subseteq expected
        /\ matched \subseteq expected
        /\ DOMAIN copy_calls \subseteq expected
        /\ \A k \in DOMAIN dest_files : dest_files[k] \in expected
        /\ \A c \in BagToSet(classified) : CopiesIn(c, classified) = 1
        /\ Cardinality(BagToSet(classified)) = Cardinality(ClassifiedPaths)
        /\ (pc = "done") => (ClassifiedPaths = expected)

\* a finished pass that classified a file two levels below "undatabased" and
\* left alone a lowercase cover, a cover in another subfolder and one beside
\* the subfolders
C8_Witness ==
    /\ pc = "done"
    /\ <<Dir_A, Str_undatabased, Name_deep, Name_Front_Cover_TIF>> \in ClassifiedPaths
    /\ <<Dir_A, Str_undatabased, Name_cover_lc_tif>> \notin ClassifiedPaths
    /\ <<Dir_A, Name_other, Name_Cover_x_tif>> \notin ClassifiedPaths
    /\ <<Dir_A, Name_Cover_top_tif>> \notin ClassifiedPaths

\* the number of samples of an image whose red, green and blue values each
\* lie between the lower and the upper value of the color, ends included
RECURSIVE SamplesInBox(_, _, _)
SamplesInBox(image, color, i) ==
    IF i > Len(image.runs) THEN 0
    ELSE LET px == image.runs[i].px
             lo == color_bounds[color][1]
             hi == color_bounds[color][2]
             inside == /\ px[1] \in lo[1]..hi[1]
                       /\ px[2] \in lo[2]..hi[2]
                       /\ px[3] \in lo[3]..hi[3]
         IN  (IF inside THEN image.runs[i].n ELSE 0) + SamplesInBox(image, color, i + 1)

\* a call of count_color_pixels with a color of the registry on a decodable
\* image has returned
ScoredCall ==
    /\ fnResult.done
    /\ fnArgs.fn = "count_color_pixels"
    /\ Lower(fnArgs.color) \in DOMAIN color_bounds
    /\ fnArgs.image.decodable

\* C9 as stated: the value returned is exactly 100 * (samples in range) /
\* (all samples).
C9_ExactRatio ==
    ScoredCall
    => fnResult.value.pct
           = (200 * 100 * SamplesInBox(fnArgs.image, Lower(fnArgs.color), 1))
             \div (100 * 100)

\* C9 amended: the value returned is the double (samples in range / all
\* samples) * 100, which is 100 * (samples in range) / (all samples) up to
\* the rounding of that double (700 of 10000 samples give 7.000000000000001)
\* and exactly 100 when every sample is in range and exactly 0 when none is;
\* so an image filled with a registry color's lower value, or its upper
\* value, gives 100.
C9_RatioUpToRounding ==
    ScoredCall
    => LET color == Lower(fnArgs.color)
           k == SamplesInBox(fnArgs.image, color, 1)
           pct == fnResult.value.pct
       IN  /\ pct >= 2 * k - 1
           /\ pct <= 2 * k + 1
           /\ (k = 100 * 100) => (pct = 200 * 100)
           /\ (k = 0) => (pct = 0)
           /\ (fnArgs.image = ImgUniform(color_bounds[color][1])) => (pct = 200 * 100)
           /\ (fnArgs.image = ImgUniform(color_bounds[color][2])) => (pct = 200 * 100)
           /\ fnResult.value.events = <<>>

\* a call on an image filled with the upper value of its color returned 100
C9_Witness ==
    /\ ScoredCall
    /\ fnArgs.image = ImgUniform(color_bounds[Lower(fnArgs.color)][2])
    /\ fnResult.value.pct = 200 * 100

\* the file at a classified path could not be scored: the color is not in the
\* registry or the image cannot be decoded
FailedClassification(path) ==
    \/ self.color \notin DOMAIN color_bounds
    \/ ~NodeAt(path).img.decodable

\* C10: with both bounds in 0..100, a file whose classification failed is
\* never reported as a match, counted or copied; and whatever the bounds, the
\* destination is written only for files counted as matches.
C10_FailedNeverMatched ==
    /\ (lower_bound >= 0 /\ lower_bound <= 100 /\ upper_bound >= 0 /\ upper_bound <= 100)
          => \A c \in BagToSet(classified) :
                FailedClassification(c.path)
                    => /\ c.pct = 0
                       /\ c.path \notin matched
                       /\ LogCount("Match", c.path) = 0
                       /\ c.path \notin DOMAIN copy_calls
                       /\ \A k \in DOMAIN dest_files : dest_files[k] # c.path
    /\ DOMAIN copy_calls \subseteq matched
    /\ \A k \in DOMAIN dest_files : dest_files[k] \in matched
    /\ image_count = Cardinality(matched)

\* a finished pass with bounds (0, 100) and a destination, in which a file
\* that could not be decoded was classified and other files were copied
C10_Witness ==
    /\ pc = "done"
    /\ lower_bound = 0
    /\ upper_bound = 100
    /\ self.dest_directory # NoDest
    /\ DOMAIN dest_files # {}
    /\ \E c \in BagToSet(classified) :
          FailedClassification(c.path) /\ c.path \notin matched

====
